---- MODULE Spec2Model ----
(***************************************************************************)
(* VoiceScribe transcription server (src/transcription_server.py).         *)
(*                                                                         *)
(* One Python process: it loads the Parakeet model, binds an HTTPServer on *)
(* the loopback interface, installs a SIGINT/SIGTERM handler and runs      *)
(* serve_forever() on the main thread.  HTTPServer is the single-threaded  *)
(* socketserver: a connection is accepted, handled to the end and closed   *)
(* before the next one is accepted; further connections wait in the        *)
(* listen backlog.  A Python signal handler runs on the main thread, on    *)
(* top of whatever frame the main thread was executing.                    *)
(*                                                                         *)
(* Optional values are sequences of length 0 (absent / None / null) or 1.  *)
(***************************************************************************)
EXTENDS Integers, Sequences, FiniteSets, TLC

\* ------------------------------------------------------------------ bounds
NumConns   == 2      \* client connections that may be open at once
MaxTmp     == 2      \* distinct temporary file names the scratch dir offers
MaxSignals == 2      \* signals delivered while the handler is installed

Conns    == 1..NumConns
TmpNames == {<<"tmp", i>> : i \in 1..MaxTmp}

\* ------------------------------------------------------------ option type
None    == <<>>
Some(x) == <<x>>

\* ------------------------------------------------------------- file names
UserFile    == <<"user", 1>>     \* an audio file the caller owns, present on disk
MissingFile == <<"user", 0>>     \* "/nonexistent/file.wav"
NoPath      == <<"none", 0>>

\* --------------------------------------------------------------- requests
\* A request target is the token sequence of the request line's path; a
\* "?", "#" or ";" token starts the query, the fragment or the parameters.
Segments == {"/health", "/status", "/transcribe", "/transcribe-file", "/other", "/x"}

Targets ==
  { <<"/health">>, <<"/status">>, <<"/transcribe">>, <<"/transcribe-file">>,
    <<"/other">>, <<"/health", "?", "x=1">>, <<"/transcribe", "/x">>,
    <<"/status", ";", "p">>, <<"/health", ";", "p", "/x">> }

Methods == {"GET", "POST", "OPTIONS", "PUT"}

\* Request bodies.  t is what json.loads makes of the body ("bad": not
\* UTF-8 JSON, as raw audio is), members the values x for which Python's
\* `x in data` is true, val the value of data['path'] for an object.
Bodies ==
  { [t |-> "bad", members |-> {},       val |-> NoPath],
    [t |-> "obj", members |-> {"path"}, val |-> UserFile],
    [t |-> "obj", members |-> {"path"}, val |-> MissingFile],
    [t |-> "obj", members |-> {},       val |-> NoPath],
    [t |-> "obj", members |-> {"file"}, val |-> NoPath],
    [t |-> "arr", members |-> {},       val |-> NoPath],
    [t |-> "arr", members |-> {"path"}, val |-> NoPath],
    [t |-> "str", members |-> {"path"}, val |-> NoPath],
    [t |-> "num", members |-> {},       val |-> NoPath] }

NoBody == [t |-> "bad", members |-> {}, val |-> NoPath]

\* clen: the request carries a Content-Length header.
Requests ==
  [method : {"POST"}, target : Targets, clen : BOOLEAN, body : Bodies]
  \cup
  [method : Methods \ {"POST"}, target : Targets, clen : {FALSE}, body : {NoBody}]

NoReq == [method |-> "", target |-> <<>>, clen |-> FALSE, body |-> NoBody]

\* ------------------------------------------------------------ model output
ModelName  == "parakeet-tdt-0.6b-v2"
Texts      == {"hello", ""}            \* result.text of a successful generate
ModelErrs  == {"bad audio"}            \* str(e) of a failure inside generate
NoSuchFile == "No such file"           \* str(e) when the path does not exist

VARIABLES
  mainpc,            \* position of the main thread in the __main__ block
  model,             \* global model: None or Some(ModelName)
  model_loaded,      \* global model_loaded
  model_lock,        \* global model_lock: None (free) or Some(holder)
  loadret,           \* return value of load_parakeet_model()
  listening,         \* the listening socket is bound
  installed,         \* signal.signal() has installed signal_handler
  shutdown_request,  \* BaseServer.__shutdown_request
  is_shut_down,      \* BaseServer.__is_shut_down (an Event)
  hstack,            \* signal_handler frames on the main thread, innermost last
  exit_status,       \* None while running, Some(status) once exited
  log,               \* lines printed to stdout
  files,             \* paths that exist on disk
  pc,                \* per connection: position of its handling
  req,               \* per connection: the request read from it
  temp_path,         \* per connection: f.name of its NamedTemporaryFile
  audio_path,        \* per connection: argument of transcribe_audio
  result,            \* per connection: value returned by transcribe_audio
  out,               \* per connection: arguments of the pending send
  resp,              \* per connection: response written to the client
  exc,               \* per connection: exception in flight
  gen,               \* per connection: outcome of model.generate
  calls,             \* per connection: invocations of model.generate so far
  loads              \* calls of load_parakeet_model so far

procvars == <<mainpc, model, model_loaded, model_lock, loadret, listening,
              installed, shutdown_request, is_shut_down, hstack,
              exit_status, log, files, loads>>
connvars == <<pc, req, temp_path, audio_path, result, out, resp, exc, gen,
              calls>>
vars     == <<procvars, connvars>>

\* ------------------------------------------------------------------ Init
Init ==
  /\ mainpc = "load"
  /\ model = None
  /\ model_loaded = FALSE
  /\ model_lock = None
  /\ loadret = FALSE
  /\ listening = FALSE
  /\ installed = FALSE
  /\ shutdown_request = FALSE
  /\ is_shut_down = FALSE
  /\ hstack = <<>>
  /\ exit_status = None
  /\ log = {}
  /\ files = {UserFile}
  /\ pc = [r \in Conns |-> "idle"]
  /\ req = [r \in Conns |-> NoReq]
  /\ temp_path = [r \in Conns |-> NoPath]
  /\ audio_path = [r \in Conns |-> NoPath]
  /\ result = [r \in Conns |-> None]
  /\ out = [r \in Conns |-> None]
  /\ resp = [r \in Conns |-> None]
  /\ exc = [r \in Conns |-> None]
  /\ gen = [r \in Conns |-> None]
  /\ calls = [r \in Conns |-> 0]
  /\ loads = 0

\* The process is alive, and the main thread is not inside a signal handler.
Alive   == mainpc \notin {"exited", "killed"}
Running == Alive /\ hstack = <<>>

\* ------------------------------------------------------- pure functions
RECURSIVE UpTo(_, _)
\* The longest prefix of the token sequence s holding no token of stops.
UpTo(s, stops) ==
  IF s = <<>> \/ Head(s) \in stops THEN <<>>
  ELSE <<Head(s)>> \o UpTo(Tail(s), stops)

\* urllib's _splitparams: the parameters start at the first ";" of the last
\* path segment.
splitparams(p) ==
  LET segs  == {i \in 1..Len(p) : p[i] \in Segments}
      last  == IF segs = {} THEN 0
               ELSE CHOOSE i \in segs : \A j \in segs : j <= i
      semis == {i \in (last + 1)..Len(p) : p[i] = ";"}
  IN IF semis = {} THEN p
     ELSE SubSeq(p, 1, (CHOOSE i \in semis : \A j \in semis : i <= j) - 1)

\* urlparse(self.path).path: the target without fragment, query and params.
urlparse_path(target) == splitparams(UpTo(target, {"#", "?"}))

\* load_parakeet_model: the globals and the return value it leaves, given
\* whether the import and load_model() succeeded.
\* load_parakeet_model setting the flag before load_model() is called.
load_parakeet_model_flag_first(ok, m, flag) ==
  IF ok
  THEN [model |-> Some(ModelName), model_loaded |-> TRUE, ret |-> TRUE,
        lines |-> {"Loading Parakeet model...",
                   "Parakeet model loaded successfully!"}]
  ELSE [model |-> m, model_loaded |-> TRUE, ret |-> FALSE,
        lines |-> {"Loading Parakeet model...", "Error loading model"}]

\* load_parakeet_model returning True from its except clause as well.
load_parakeet_model_always_true(ok, m, flag) ==
  IF ok
  THEN [model |-> Some(ModelName), model_loaded |-> TRUE, ret |-> TRUE,
        lines |-> {"Loading Parakeet model...",
                   "Parakeet model loaded successfully!"}]
  ELSE [model |-> m, model_loaded |-> flag, ret |-> TRUE,
        lines |-> {"Loading Parakeet model...", "Error loading model"}]

load_parakeet_model(ok, m, flag) ==
  IF ok
  THEN [model |-> Some(ModelName), model_loaded |-> TRUE, ret |-> TRUE,
        lines |-> {"Loading Parakeet model...",
                   "Parakeet model loaded successfully!"}]
  ELSE [model |-> m, model_loaded |-> flag, ret |-> FALSE,
        lines |-> {"Loading Parakeet model...", "Error loading model"}]

\* The result dictionaries of transcribe_audio.
OkResult(text) == [text |-> text, error |-> None]
ErrResult(msg) == [text |-> "", error |-> Some(msg)]

\* The bodies of the other JSON responses.
HealthBody(flag)  == [status |-> "ok", model_loaded |-> flag]
StatusBody(flag)  == [model_loaded |-> flag, model_name |-> ModelName]
ErrorBody(msg)    == [error |-> msg]
EmptyBody         == [empty |-> TRUE]
HtmlErrorBody     == [html |-> TRUE]
Response(status, body) == [status |-> status, body |-> body]

\* ---------------------------------------------------------------- startup
\* __main__ calls load_parakeet_model(); the import or load_model() may raise.
LoadModel ==
  /\ Running /\ mainpc = "load"
  /\ \E ok \in BOOLEAN :
       LET l == load_parakeet_model(ok, model, model_loaded) IN
         /\ model' = l.model
         /\ model_loaded' = l.model_loaded
         /\ loadret' = l.ret
         /\ log' = log \cup l.lines
  /\ loads' = loads + 1
  /\ mainpc' = "main_if"
  /\ UNCHANGED <<model_lock, listening, installed, shutdown_request,
                 is_shut_down, hstack, exit_status, files, connvars>>

\* The branch of __main__ on the load's return value: run_server(port) or
\* sys.exit(1).
\* __main__ starting the server whatever the load returned.
MainAfterLoadIgnoresFailure(ret) ==
  [mainpc |-> "bind", exit_status |-> None, lines |-> {}]

\* __main__ calling load_parakeet_model() again after a failure.
MainAfterLoadRetries(ret) ==
  IF ret
  THEN [mainpc |-> "bind", exit_status |-> None, lines |-> {}]
  ELSE [mainpc |-> "load", exit_status |-> None, lines |-> {}]

MainAfterLoad(ret) ==
  IF ret
  THEN [mainpc |-> "bind", exit_status |-> None, lines |-> {}]
  ELSE [mainpc |-> "exited", exit_status |-> Some(1),
        lines |-> {"Failed to load model. Exiting."}]

MainBranch ==
  /\ Running /\ mainpc = "main_if"
  /\ LET m == MainAfterLoad(loadret) IN
       /\ mainpc' = m.mainpc
       /\ exit_status' = m.exit_status
       /\ log' = log \cup m.lines
  /\ UNCHANGED <<model, model_loaded, model_lock, loadret, loads, listening,
                 installed, shutdown_request, is_shut_down, hstack, files,
                 connvars>>

\* run_server: HTTPServer(('127.0.0.1', port), ...) binds and listens.
Bind ==
  /\ Running /\ mainpc = "bind"
  /\ listening' = TRUE
  /\ log' = log \cup {"Transcription server running"}
  /\ mainpc' = "install"
  /\ UNCHANGED <<model, model_loaded, model_lock, loadret, loads, installed,
                 shutdown_request, is_shut_down, hstack, exit_status, files,
                 connvars>>

\* The bind raises OSError (port in use): the uncaught exception ends the
\* process with status 1.
BindFails ==
  /\ Running /\ mainpc = "bind"
  /\ mainpc' = "exited"
  /\ exit_status' = Some(1)
  /\ UNCHANGED <<model, model_loaded, model_lock, loadret, loads, listening,
                 installed, shutdown_request, is_shut_down, hstack, log,
                 files, connvars>>

\* signal.signal(SIGINT/SIGTERM, signal_handler), then serve_forever() starts
\* and clears the is_shut_down event.
InstallHandlers ==
  /\ Running /\ mainpc = "install"
  /\ installed' = TRUE
  /\ is_shut_down' = FALSE
  /\ mainpc' = "serve"
  /\ UNCHANGED <<model, model_loaded, model_lock, loadret, loads, listening,
                 shutdown_request, hstack, exit_status, log, files, connvars>>

\* ------------------------------------------------------------- accept loop
\* A client opens a connection; it waits in the listen backlog.
Connect(r) ==
  /\ Alive /\ listening
  /\ pc[r] = "idle"
  /\ pc' = [pc EXCEPT ![r] = "queued"]
  /\ UNCHANGED <<procvars, req, temp_path, audio_path, result, out, resp,
                 exc, gen, calls>>

\* Some connection has been accepted and its handling has not finished.
Busy == \E r \in Conns : pc[r] \notin {"idle", "queued"}

\* One turn of HTTPServer.serve_forever() on the main thread: leave the loop
\* when a shutdown was requested (setting is_shut_down on the way out, after
\* which run_server and the script end), else accept one queued connection
\* and handle it synchronously.
serve_forever ==
  /\ Running /\ mainpc = "serve"
  /\ ~Busy
  /\ IF shutdown_request
     THEN /\ shutdown_request' = FALSE
          /\ is_shut_down' = TRUE
          /\ mainpc' = "exited"
          /\ exit_status' = Some(0)
          /\ pc' = pc
     ELSE /\ \E r \in Conns :
               /\ pc[r] = "queued"
               /\ pc' = [pc EXCEPT ![r] = "parse"]
          /\ UNCHANGED <<shutdown_request, is_shut_down, mainpc, exit_status>>
  /\ UNCHANGED <<model, model_loaded, model_lock, loadret, loads, listening,
                 installed, hstack, log, files, req, temp_path, audio_path,
                 result, out, resp, exc, gen, calls>>

\* ---------------------------------------------------------------- routing
\* The /transcribe branch taken for every path that starts with /transcribe.
IsTranscribe_prefix(q) ==
  /\ q.method = "POST"
  /\ urlparse_path(q.target) \in {<<"/transcribe">>, <<"/transcribe-file">>}

IsTranscribe(q) ==
  q.method = "POST" /\ urlparse_path(q.target) = <<"/transcribe">>

IsTranscribeFile(q) ==
  q.method = "POST" /\ urlparse_path(q.target) = <<"/transcribe-file">>

NotFound == Response(404, ErrorBody("Not found"))

\* do_GET reporting the flag's value at import time.
do_GET_stale(q, flag) ==
  IF urlparse_path(q.target) = <<"/health">>
  THEN Response(200, HealthBody(FALSE))
  ELSE IF urlparse_path(q.target) = <<"/status">>
  THEN Response(200, StatusBody(FALSE))
  ELSE NotFound

\* do_GET matching the first path segment only.
do_GET_prefix(q, flag) ==
  IF Head(urlparse_path(q.target)) = "/health"
  THEN Response(200, HealthBody(flag))
  ELSE IF Head(urlparse_path(q.target)) = "/status"
  THEN Response(200, StatusBody(flag))
  ELSE NotFound

\* do_GET: the response it sends, reading the global model_loaded.
do_GET(q, flag) ==
  IF urlparse_path(q.target) = <<"/health">>
  THEN Response(200, HealthBody(flag))
  ELSE IF urlparse_path(q.target) = <<"/status">>
  THEN Response(200, StatusBody(flag))
  ELSE NotFound

\* do_OPTIONS: 200 with the CORS headers and no body.
do_OPTIONS(q) == Response(200, EmptyBody)

\* A catch-all handler answering the other methods with the JSON 404.
Unsupported_as_404(q) == Response(404, ErrorBody("Not found"))

\* BaseHTTPRequestHandler answers a method without a do_<METHOD> with
\* send_error(501).
Unsupported(q) == Response(501, HtmlErrorBody)

\* The handler's first step on request q: [pc, out], the next position and
\* the response to send (None while the body is still to be read).
Dispatch(q, flag) ==
  IF q.method = "GET"
  THEN [pc |-> "respond", out |-> Some(do_GET(q, flag))]
  ELSE IF q.method = "POST"
  THEN IF IsTranscribe(q) \/ IsTranscribeFile(q)
       THEN [pc |-> "read", out |-> None]
       ELSE [pc |-> "respond", out |-> Some(NotFound)]
  ELSE IF q.method = "OPTIONS"
  THEN [pc |-> "respond", out |-> Some(do_OPTIONS(q))]
  ELSE [pc |-> "respond", out |-> Some(Unsupported(q))]

\* handle_one_request: the request line and headers arrive and the method's
\* do_* is entered.
HandleOneRequest(r) ==
  /\ Running
  /\ pc[r] = "parse"
  /\ \E q \in Requests :
       LET d == Dispatch(q, model_loaded) IN
         /\ req' = [req EXCEPT ![r] = q]
         /\ pc' = [pc EXCEPT ![r] = d.pc]
         /\ out' = [out EXCEPT ![r] = d.out]
  /\ UNCHANGED <<procvars, temp_path, audio_path, result, resp, exc, gen, calls>>

\* ---------------------------------------------------------------- do_POST
\* Where an exception raised at the handler's current position goes: inside
\* the try of the /transcribe branch the finally clause runs first;
\* elsewhere it leaves do_POST at once.
Raise(q, inTry) == IF inTry /\ IsTranscribe(q) THEN "finally" ELSE "fault"

\* int(self.headers['Content-Length']) and self.rfile.read(content_length):
\* a missing header makes int(None) raise; the read blocks until the body
\* has arrived.
ReadBody(r) ==
  /\ Running
  /\ pc[r] = "read"
  /\ IF ~req[r].clen
     THEN /\ exc' = [exc EXCEPT ![r] = Some("TypeError")]
          /\ pc' = [pc EXCEPT ![r] = Raise(req[r], FALSE)]
     ELSE /\ exc' = exc
          /\ pc' = [pc EXCEPT ![r] =
                      IF IsTranscribe(req[r]) THEN "mktemp" ELSE "json"]
  /\ UNCHANGED <<procvars, req, temp_path, audio_path, result, out, resp, gen, calls>>

\* tempfile.NamedTemporaryFile(suffix='.wav', delete=False): a new file under
\* a name no existing file has, or an OSError (NoPath) and no file.
MakeTemp(r) ==
  /\ Running
  /\ pc[r] = "mktemp"
  /\ \E p \in (TmpNames \ files) \cup {NoPath} :
       IF p = NoPath
       THEN /\ exc' = [exc EXCEPT ![r] = Some("OSError")]
            /\ pc' = [pc EXCEPT ![r] = Raise(req[r], FALSE)]
            /\ UNCHANGED <<files, temp_path>>
       ELSE /\ files' = files \cup {p}
            /\ temp_path' = [temp_path EXCEPT ![r] = p]
            /\ pc' = [pc EXCEPT ![r] = "write"]
            /\ exc' = exc
  /\ UNCHANGED <<mainpc, model, model_loaded, model_lock, loadret, loads, listening,
                 installed, shutdown_request, is_shut_down, hstack,
                 exit_status, log, req, audio_path, result, out, resp, gen, calls>>

\* f.write(post_data) and the close at the end of the with block: the write
\* or the flush may raise (disk full); the with block is not inside the try.
WriteTemp(r) ==
  /\ Running
  /\ pc[r] = "write"
  /\ \E ok \in BOOLEAN :
       IF ok
       THEN /\ audio_path' = [audio_path EXCEPT ![r] = temp_path[r]]
            /\ pc' = [pc EXCEPT ![r] = "call"]
            /\ exc' = exc
       ELSE /\ exc' = [exc EXCEPT ![r] = Some("OSError")]
            /\ pc' = [pc EXCEPT ![r] = Raise(req[r], FALSE)]
            /\ audio_path' = audio_path
  /\ UNCHANGED <<procvars, req, temp_path, result, out, resp, gen, calls>>

\* The /transcribe-file branch using data.get('path') without the test.
transcribe_file_body_unchecked(b) ==
  IF b.t = "bad"
  THEN [pc |-> "fault", exc |-> Some("ValueError"), out |-> None,
        audio_path |-> NoPath]
  ELSE IF b.t # "obj"
  THEN [pc |-> "fault", exc |-> Some("TypeError"), out |-> None,
        audio_path |-> NoPath]
  ELSE [pc |-> "call", exc |-> None, out |-> None, audio_path |-> b.val]

\* The /transcribe-file branch after the read: json.loads, the test
\* 'path' not in data, and data['path'].
transcribe_file_body(b) ==
  IF b.t = "bad"
  THEN [pc |-> "fault", exc |-> Some("ValueError"), out |-> None,
        audio_path |-> NoPath]
  ELSE IF b.t \notin {"obj", "arr", "str"}
  THEN [pc |-> "fault", exc |-> Some("TypeError"), out |-> None,
        audio_path |-> NoPath]
  ELSE IF "path" \notin b.members
  THEN [pc |-> "respond", exc |-> None, audio_path |-> NoPath,
        out |-> Some(Response(400, ErrorBody("No path provided")))]
  ELSE IF b.t # "obj"
  THEN [pc |-> "fault", exc |-> Some("TypeError"), out |-> None,
        audio_path |-> NoPath]
  ELSE [pc |-> "call", exc |-> None, out |-> None, audio_path |-> b.val]

ParseJson(r) ==
  /\ Running
  /\ pc[r] = "json"
  /\ LET j == transcribe_file_body(req[r].body) IN
       /\ pc' = [pc EXCEPT ![r] = j.pc]
       /\ exc' = [exc EXCEPT ![r] = j.exc]
       /\ out' = [out EXCEPT ![r] = j.out]
       /\ audio_path' = [audio_path EXCEPT ![r] = j.audio_path]
  /\ UNCHANGED <<procvars, req, temp_path, result, resp, gen, calls>>

\* ------------------------------------------------------- transcribe_audio
\* transcribe_audio testing the model only inside the with block: it goes
\* for the lock first.
CallTranscribeLocksFirst(r) ==
  /\ Running
  /\ pc[r] = "call"
  /\ pc' = [pc EXCEPT ![r] = "lock"]
  /\ UNCHANGED <<procvars, req, temp_path, audio_path, result, out, resp,
                 exc, gen, calls>>

\* transcribe_audio up to the with statement: the early return when the
\* global model is None.
CallTranscribe(r) ==
  /\ Running
  /\ pc[r] = "call"
  /\ IF model = None
     THEN /\ result' = [result EXCEPT ![r] = Some(ErrResult("Model not loaded"))]
          /\ out' = [out EXCEPT ![r] =
                       Some(Response(200, ErrResult("Model not loaded")))]
          /\ pc' = [pc EXCEPT ![r] = "respond"]
     ELSE /\ pc' = [pc EXCEPT ![r] = "lock"]
          /\ UNCHANGED <<result, out>>
  /\ UNCHANGED <<procvars, req, temp_path, audio_path, resp, exc, gen, calls>>

\* `with model_lock:` the lock after connection r's handler has entered the
\* block, and after it has left it.
AcquireNoLock(lock, r) == lock     \* the call is made outside the lock

Acquire(lock, r) == Some(r)

ReleaseKeepsLock(lock, r) == lock  \* acquire() without a release on the way out

Release(lock, r) == None

AcquireLock(r) ==
  /\ Running
  /\ pc[r] = "lock"
  /\ model_lock = None
  /\ model_lock' = Acquire(model_lock, r)
  /\ calls' = [calls EXCEPT ![r] = @ + 1]
  /\ pc' = [pc EXCEPT ![r] = "generate"]
  /\ UNCHANGED <<mainpc, model, model_loaded, loadret, loads, listening, installed,
                 shutdown_request, is_shut_down, hstack, exit_status, log,
                 files, req, temp_path, audio_path, result, out, resp, exc,
                 gen>>

\* What model.generate(path) can do: raise when the file does not exist,
\* else return a text or raise.
GenerateOutcomes(path, fs) ==
  IF path \notin fs
  THEN {[ok |-> FALSE, v |-> NoSuchFile]}
  ELSE {[ok |-> TRUE, v |-> t] : t \in Texts}
       \cup {[ok |-> FALSE, v |-> e] : e \in ModelErrs}

\* transcribe_audio without its except clause: the failure leaves it.
transcribe_audio_propagates(o, flag) ==
  IF o.ok
  THEN [raised |-> FALSE, result |-> OkResult(o.v), model_loaded |-> flag]
  ELSE [raised |-> TRUE, result |-> ErrResult(o.v), model_loaded |-> flag]

\* transcribe_audio marking the model unloaded after a failed inference.
transcribe_audio_unloads(o, flag) ==
  IF o.ok
  THEN [raised |-> FALSE, result |-> OkResult(o.v), model_loaded |-> flag]
  ELSE [raised |-> FALSE, result |-> ErrResult(o.v), model_loaded |-> FALSE]

\* The try/except of transcribe_audio around outcome o of model.generate:
\* the dictionary returned, or the exception that leaves the function, and
\* the global model_loaded (flag on entry) as the function leaves it.
transcribe_audio(o, flag) ==
  IF o.ok
  THEN [raised |-> FALSE, result |-> OkResult(o.v), model_loaded |-> flag]
  ELSE [raised |-> FALSE, result |-> ErrResult(o.v), model_loaded |-> flag]

\* model.generate returns or raises, the with block releases the lock and
\* transcribe_audio returns to do_POST.
GenerateReturn(r) ==
  /\ Running
  /\ pc[r] = "generate"
  /\ \E o \in GenerateOutcomes(audio_path[r], files) :
       LET t == transcribe_audio(o, model_loaded) IN
         /\ gen' = [gen EXCEPT ![r] = Some(o)]
         /\ model_loaded' = t.model_loaded
         /\ IF t.raised
            THEN /\ exc' = [exc EXCEPT ![r] = Some(o.v)]
                 /\ pc' = [pc EXCEPT ![r] = Raise(req[r], TRUE)]
                 /\ UNCHANGED <<result, out>>
            ELSE /\ result' = [result EXCEPT ![r] = Some(t.result)]
                 /\ out' = [out EXCEPT ![r] = Some(Response(200, t.result))]
                 /\ pc' = [pc EXCEPT ![r] = "respond"]
                 /\ exc' = exc
  /\ model_lock' = Release(model_lock, r)
  /\ UNCHANGED <<mainpc, model, loadret, loads, listening, installed,
                 shutdown_request, is_shut_down, hstack, exit_status, log,
                 files, req, temp_path, audio_path, resp, calls>>

\* --------------------------------------------------------------- responses
\* send_json_response / send_response: the write to the client succeeds, or
\* raises because the client has gone.
Respond(r) ==
  /\ Running
  /\ pc[r] = "respond"
  /\ \E ok \in BOOLEAN :
       IF ok
       THEN /\ resp' = [resp EXCEPT ![r] = out[r]]
            /\ pc' = [pc EXCEPT ![r] =
                        IF IsTranscribe(req[r]) THEN "finally" ELSE "returned"]
            /\ exc' = exc
       ELSE /\ exc' = [exc EXCEPT ![r] = Some("BrokenPipeError")]
            /\ pc' = [pc EXCEPT ![r] = Raise(req[r], TRUE)]
            /\ resp' = resp
  /\ UNCHANGED <<procvars, req, temp_path, audio_path, result, out, gen, calls>>

\* A cleanup that empties the scratch directory.
unlink_all(fs, path) == fs \ TmpNames

\* A finally clause that removes nothing.
unlink_noop(fs, path) == fs

\* os.unlink(path); a failure is swallowed by the bare except.
unlink(fs, path) == fs \ {path}

\* The finally clause of the /transcribe branch, then do_POST returns or
\* the exception in flight goes on.
Cleanup(r) ==
  /\ Running
  /\ pc[r] = "finally"
  /\ files' = unlink(files, temp_path[r])
  /\ pc' = [pc EXCEPT ![r] = IF exc[r] = None THEN "returned" ELSE "fault"]
  /\ UNCHANGED <<mainpc, model, model_loaded, model_lock, loadret, loads, listening,
                 installed, shutdown_request, is_shut_down, hstack,
                 exit_status, log, req, temp_path, audio_path, result, out,
                 resp, exc, gen, calls>>

\* The handler is over (returned, or its exception was reported by
\* handle_error): the server closes the connection and goes back to the
\* accept loop; the handler's locals are gone.
Finish(r) ==
  /\ Running
  /\ pc[r] \in {"returned", "fault"}
  /\ pc' = [pc EXCEPT ![r] = "idle"]
  /\ req' = [req EXCEPT ![r] = NoReq]
  /\ temp_path' = [temp_path EXCEPT ![r] = NoPath]
  /\ audio_path' = [audio_path EXCEPT ![r] = NoPath]
  /\ result' = [result EXCEPT ![r] = None]
  /\ out' = [out EXCEPT ![r] = None]
  /\ resp' = [resp EXCEPT ![r] = None]
  /\ exc' = [exc EXCEPT ![r] = None]
  /\ gen' = [gen EXCEPT ![r] = None]
  /\ calls' = [calls EXCEPT ![r] = 0]
  /\ UNCHANGED procvars

\* ----------------------------------------------------------------- signals
\* SIGINT or SIGTERM arrives.  With signal_handler installed a handler frame
\* starts on the main thread; before that the default disposition ends the
\* process.
Signal ==
  /\ Alive
  /\ IF installed
     THEN /\ Len(hstack) < MaxSignals
          /\ hstack' = Append(hstack, "print")
          /\ mainpc' = mainpc
     ELSE /\ mainpc' = "killed"
          /\ hstack' = hstack
  /\ UNCHANGED <<model, model_loaded, model_lock, loadret, loads, listening,
                 installed, shutdown_request, is_shut_down, exit_status, log,
                 files, connvars>>

Top(st)        == st[Len(st)]
SetTop(st, x)  == [st EXCEPT ![Len(st)] = x]

\* One step of the innermost signal_handler frame: print, server.shutdown()
\* (set the request flag, then wait for the is_shut_down event), sys.exit(0).
signal_handler ==
  /\ Alive
  /\ hstack # <<>>
  /\ Top(hstack) = "wait" => is_shut_down
  /\ IF Top(hstack) = "print"
     THEN /\ log' = log \cup {"Shutting down server..."}
          /\ hstack' = SetTop(hstack, "shutdown")
          /\ UNCHANGED <<shutdown_request, mainpc, exit_status>>
     ELSE IF Top(hstack) = "shutdown"
     THEN /\ shutdown_request' = TRUE
          /\ hstack' = SetTop(hstack, "wait")
          /\ UNCHANGED <<log, mainpc, exit_status>>
     ELSE IF Top(hstack) = "wait"
     THEN /\ hstack' = SetTop(hstack, "exit")
          /\ UNCHANGED <<log, shutdown_request, mainpc, exit_status>>
     ELSE /\ mainpc' = "exited"
          /\ exit_status' = Some(0)
          /\ UNCHANGED <<log, shutdown_request, hstack>>
  /\ UNCHANGED <<model, model_loaded, model_lock, loadret, loads, listening,
                 installed, is_shut_down, files, connvars>>

\* ------------------------------------------------------------ specification
Handler(r) ==
  \/ HandleOneRequest(r)
  \/ ReadBody(r)
  \/ MakeTemp(r)
  \/ WriteTemp(r)
  \/ ParseJson(r)
  \/ CallTranscribe(r)
  \/ AcquireLock(r)
  \/ GenerateReturn(r)
  \/ Respond(r)
  \/ Cleanup(r)
  \/ Finish(r)

MainThread ==
  \/ LoadModel
  \/ MainBranch
  \/ Bind
  \/ BindFails
  \/ InstallHandlers
  \/ serve_forever
  \/ signal_handler
  \/ \E r \in Conns : Handler(r)

Next ==
  \/ MainThread
  \/ Signal
  \/ \E r \in Conns : Connect(r)

Spec == Init /\ [][Next]_vars

\* The main thread keeps running whenever it has a step to take.
FairSpec == Spec /\ WF_vars(MainThread)

TypeOK ==
  /\ mainpc \in {"load", "main_if", "bind", "install", "serve", "exited", "killed"}
  /\ model \in {None, Some(ModelName)}
  /\ model_loaded \in BOOLEAN
  /\ model_lock \in {None} \cup {Some(r) : r \in Conns}
  /\ Len(hstack) <= MaxSignals
  /\ exit_status \in {None, Some(0), Some(1)}
  /\ files \subseteq TmpNames \cup {UserFile}
  /\ \A r \in Conns : req[r] \in Requests \cup {NoReq}
  /\ \A r \in Conns : calls[r] \in 0..1
  /\ loads \in 0..1

\* ================================================================= claims
InGenerate == {r \in Conns : pc[r] = "generate"}
Handled(r) == pc[r] \in {"respond", "finally", "returned", "fault"}

\* C1: at most one connection's handler is inside model.generate at any
\* time, and the one that is holds model_lock: every inference call, from
\* either route, is made under the same lock.
C1_SingleInference ==
  /\ Cardinality(InGenerate) <= 1
  /\ \A r \in InGenerate : model_lock = Some(r)

\* An inference is running while another connection is in flight.
C1_Witness ==
  \E r1, r2 \in Conns :
    /\ r1 # r2
    /\ pc[r1] = "generate" /\ IsTranscribeFile(req[r1])
    /\ pc[r2] = "queued"

\* C2: once a signal has started signal_handler, the process eventually
\* exits with status 0.
C2_SignalLeadsToExit ==
  (hstack # <<>>) ~> (mainpc = "exited" /\ exit_status = Some(0))

\* C3: after a failed load the model is unset, the flag is false, the
\* socket is never bound, __main__ goes nowhere but to its exit, and the
\* exit status is 1.
C3_FailedLoadNeverListens ==
  (mainpc # "load" /\ ~loadret) =>
    /\ model = None
    /\ ~model_loaded
    /\ ~listening
    /\ mainpc \in {"main_if", "exited", "killed"}
    /\ mainpc = "exited" => exit_status = Some(1)

\* The load failed and the process has exited.
C3_Witness ==
  /\ mainpc = "exited" /\ ~loadret
  /\ exit_status = Some(1)
  /\ "Error loading model" \in log

\* C4: no step takes model_loaded from true to false.
C4_ReadyIsMonotone == [][model_loaded => model_loaded']_vars

\* The flag is true after a failed inference and a signal.
C4_Witness ==
  /\ model_loaded
  /\ hstack # <<>>
  /\ \E r \in Conns : gen[r] # None /\ ~gen[r][1].ok

\* C5: when the handling of a POST /transcribe is over, by return or by an
\* exception, the temporary file it created does not exist.
C5_TempFileRemoved ==
  \A r \in Conns :
    (pc[r] \in {"returned", "fault"} /\ IsTranscribe(req[r])
       /\ temp_path[r] # NoPath)
      => temp_path[r] \notin files

\* C6: after model.generate has returned or raised, transcribe_audio has
\* returned a dictionary: the model's text with a null error, or an empty
\* text with an error message; no exception of the model is in flight in
\* the handler, and the response sent is that dictionary with status 200.
C6_InferenceFailureIsResult ==
  \A r \in Conns :
    gen[r] # None =>
      /\ result[r] # None
      /\ gen[r][1].ok =>
           result[r][1].error = None /\ result[r][1].text = gen[r][1].v
      /\ ~gen[r][1].ok =>
           result[r][1].error # None /\ result[r][1].text = ""
      /\ exc[r] \in {None, Some("BrokenPipeError")}
      /\ out[r] = Some(Response(200, result[r][1]))
      /\ resp[r] \in {None, out[r]}
      /\ pc[r] = "returned" => resp[r] = out[r]

\* A failed inference on /transcribe-file was answered.
C6_Witness ==
  \E r \in Conns :
    /\ pc[r] = "returned" /\ IsTranscribeFile(req[r])
    /\ gen[r] # None /\ ~gen[r][1].ok
    /\ resp[r] # None /\ resp[r][1].status = 200

\* C7: while one connection's handler is blocked reading its body, waiting
\* for the lock or inside inference, the server can accept a connection
\* waiting in the backlog.
C7_AcceptWhileBusy ==
  ( /\ Running /\ mainpc = "serve"
    /\ \E r1 \in Conns : pc[r1] \in {"read", "lock", "generate"}
    /\ \E r2 \in Conns : pc[r2] = "queued" )
  => ENABLED serve_forever

\* A POST /transcribe-file that carries a JSON object without "path".
NoPathRequest(q) ==
  /\ IsTranscribeFile(q) /\ q.clen
  /\ q.body.t = "obj" /\ "path" \notin q.body.members

\* C8: a POST /transcribe-file whose JSON object has no "path" never
\* reaches transcribe_audio, the lock or the model; the response it sends
\* is 400 {"error": "No path provided"}.
C8_MissingPathIs400 ==
  \A r \in Conns :
    NoPathRequest(req[r]) =>
      /\ pc[r] \in {"read", "json", "respond", "returned", "fault"}
      /\ model_lock # Some(r) /\ gen[r] = None /\ result[r] = None
      /\ pc[r] \in {"respond", "returned", "fault"} =>
           out[r] = Some(Response(400, ErrorBody("No path provided")))
      /\ pc[r] = "returned" => resp[r] = out[r]
      /\ pc[r] = "fault" => exc[r] = Some("BrokenPipeError")

\* The 400 was written to the client.
C8_Witness ==
  \E r \in Conns :
    /\ NoPathRequest(req[r]) /\ pc[r] = "returned"
    /\ resp[r] = Some(Response(400, ErrorBody("No path provided")))

\* A GET whose parsed path is /health or /status.
IsProbe(q) ==
  q.method = "GET" /\ urlparse_path(q.target) \in {<<"/health">>, <<"/status">>}

\* C9: a GET /health or /status is answered with status 200 and a
\* model_loaded field equal to the global flag.
C9_ProbeReportsFlag ==
  \A r \in Conns :
    IsProbe(req[r]) =>
      /\ pc[r] \in {"respond", "returned", "fault"}
      /\ out[r] # None
      /\ out[r][1].status = 200
      /\ out[r][1].body.model_loaded = model_loaded
      /\ pc[r] = "returned" => resp[r] = out[r]
      /\ pc[r] = "fault" => exc[r] = Some("BrokenPipeError")

\* A probe with a query string was answered while another connection waits.
C9_Witness ==
  \E r1, r2 \in Conns :
    /\ req[r1].method = "GET" /\ req[r1].target = <<"/health", "?", "x=1">>
    /\ pc[r1] = "returned"
    /\ resp[r1] = Some(Response(200, HealthBody(TRUE)))
    /\ pc[r2] = "queued"

\* The four routes with a behaviour of their own.
DefinedRoute(q) ==
  \/ q.method = "GET"
       /\ urlparse_path(q.target) \in {<<"/health">>, <<"/status">>}
  \/ q.method = "POST"
       /\ urlparse_path(q.target) \in {<<"/transcribe">>, <<"/transcribe-file">>}

\* C10: a GET or POST to any other route sends 404 {"error": "Not found"}
\* and never reaches transcribe_audio or the model; GET /transcribe and
\* POST /health are among them.
C10_UnknownRouteIs404 ==
  \A r \in Conns :
    /\ ( /\ req[r].method \in {"GET", "POST"}
         /\ ~DefinedRoute(req[r]) ) =>
           /\ pc[r] \in {"respond", "returned", "fault"}
           /\ out[r] = Some(NotFound)
           /\ gen[r] = None /\ result[r] = None /\ model_lock # Some(r)
           /\ pc[r] = "returned" => resp[r] = out[r]
           /\ pc[r] = "fault" => exc[r] = Some("BrokenPipeError")
    /\ ( \/ req[r].method = "GET" /\ req[r].target = <<"/transcribe">>
         \/ req[r].method = "POST" /\ req[r].target = <<"/health">> ) =>
           out[r] = Some(NotFound)

\* POST /health was answered with the 404.
C10_Witness ==
  \E r \in Conns :
    /\ req[r].method = "POST" /\ req[r].target = <<"/health">>
    /\ pc[r] = "returned"
    /\ resp[r] = Some(NotFound)

\* C11: model_lock is held only by a handler that is inside
\* model.generate: once transcribe_audio has returned, by any path, its
\* caller does not hold the lock, and a handler that reaches the with
\* statement finds the lock free.
C11_LockOnlyDuringInference ==
  \A r \in Conns :
    /\ model_lock = Some(r) => pc[r] = "generate"
    /\ model_lock # None => InGenerate # {}
    /\ pc[r] = "lock" => model_lock = None

\* transcribe_audio has returned after a failed inference and the lock is
\* free.
C11_Witness ==
  \E r \in Conns :
    /\ gen[r] # None /\ ~gen[r][1].ok
    /\ pc[r] = "respond"
    /\ model_lock = None

\* A POST to one of the two transcription routes.
IsTranscription(q) == IsTranscribe(q) \/ IsTranscribeFile(q)

\* C12: when the handling of a POST /transcribe or /transcribe-file is
\* over, a JSON response with status 200 or 400 has been written, whatever
\* the body and the headers were, unless the client had gone or the
\* temporary file could not be written.
C12_TranscriptionAnswered ==
  \A r \in Conns :
    ( /\ IsTranscription(req[r])
      /\ pc[r] \in {"returned", "fault"}
      /\ exc[r] \notin {Some("BrokenPipeError"), Some("OSError")} )
    => /\ resp[r] # None
       /\ resp[r][1].status \in {200, 400}

\* C13: while the socket is bound or a connection is being handled, the
\* model is set and the flag is true, and no handler gets the
\* "Model not loaded" result from transcribe_audio.
C13_ServingImpliesLoaded ==
  /\ (listening \/ \E r \in Conns : pc[r] # "idle") =>
       (model # None /\ model_loaded /\ loadret)
  /\ \A r \in Conns :
       /\ result[r] # Some(ErrResult("Model not loaded"))
       /\ pc[r] \in {"lock", "generate"} => model # None

\* A handler has passed the test of the model in transcribe_audio.
C13_Witness ==
  \E r \in Conns :
    /\ pc[r] = "lock" /\ IsTranscribe(req[r])
    /\ model = Some(ModelName) /\ model_loaded

\* ------------------------------------------- transcribe_audio on its own
\* transcribe_audio called by concurrent callers in any state of the
\* globals: the model loaded or not, the lock free or held by a thread
\* outside the callers (holder 0).
CallRequests ==
  {q \in Requests :
     /\ IsTranscribeFile(q) /\ q.clen
     /\ q.body.t = "obj" /\ "path" \in q.body.members}

CallInit ==
  /\ mainpc = "serve"
  /\ model \in {None, Some(ModelName)}
  /\ model_loaded = (model # None)
  /\ loadret = (model # None)
  /\ model_lock \in {None, Some(0)}
  /\ listening = TRUE
  /\ installed = TRUE
  /\ shutdown_request = FALSE
  /\ is_shut_down = FALSE
  /\ hstack = <<>>
  /\ exit_status = None
  /\ log = {}
  /\ files = {UserFile}
  /\ loads = 1
  /\ pc = [r \in Conns |-> "call"]
  /\ req \in [Conns -> CallRequests]
  /\ audio_path = [r \in Conns |-> req[r].body.val]
  /\ temp_path = [r \in Conns |-> NoPath]
  /\ result = [r \in Conns |-> None]
  /\ out = [r \in Conns |-> None]
  /\ resp = [r \in Conns |-> None]
  /\ exc = [r \in Conns |-> None]
  /\ gen = [r \in Conns |-> None]
  /\ calls = [r \in Conns |-> 0]

CallNext ==
  \E r \in Conns :
    \/ CallTranscribe(r)
    \/ AcquireLock(r)
    \/ GenerateReturn(r)

CallSpec == CallInit /\ [][CallNext]_vars

\* C14: with the model not loaded, a caller of transcribe_audio goes from
\* the call straight to the result {error: "Model not loaded", text: ""}:
\* it never waits for or holds model_lock, never invokes the model, and its
\* step is enabled whoever holds the lock.
C14_NotLoadedReturnsAtOnce ==
  \A r \in Conns :
    model = None =>
      /\ pc[r] \in {"call", "respond"}
      /\ calls[r] = 0 /\ gen[r] = None
      /\ model_lock \in {None, Some(0)}
      /\ pc[r] = "call" => ENABLED CallTranscribe(r)
      /\ pc[r] = "respond" =>
           result[r] = Some([error |-> Some("Model not loaded"), text |-> ""])

\* A caller got the error result while another thread held the lock.
C14_Witness ==
  /\ model = None
  /\ model_lock = Some(0)
  /\ \E r \in Conns :
       /\ pc[r] = "respond"
       /\ result[r] = Some(ErrResult("Model not loaded"))

C16_FileRouteLeavesFiles ==
  /\ [][ (\E r \in Conns :
            /\ IsTranscribeFile(req[r]) \/ IsTranscribeFile(req'[r])
            /\ pc'[r] # pc[r])
         => files' = files ]_vars
  /\ [](\A r \in Conns :
          IsTranscribeFile(req[r]) =>
            (temp_path[r] = NoPath /\ UserFile \in files))

\* A /transcribe-file on the caller's file was answered after a failed
\* inference.
C16_Witness ==
  \E r \in Conns :
    /\ IsTranscribeFile(req[r]) /\ pc[r] = "returned"
    /\ audio_path[r] = UserFile
    /\ gen[r] # None /\ ~gen[r][1].ok
    /\ UserFile \in files

\* C17: load_parakeet_model is called at most once in the process, and the
\* handling of one request invokes model.generate at most once, exactly
\* once when it has an outcome, failed or not.
C17_NoRetry ==
  /\ loads <= 1
  /\ \A r \in Conns :
       /\ calls[r] <= 1
       /\ gen[r] # None => calls[r] = 1

\* A request whose single inference failed has been answered.
C17_Witness ==
  \E r \in Conns :
    /\ pc[r] = "returned"
    /\ gen[r] # None /\ ~gen[r][1].ok
    /\ calls[r] = 1 /\ loads = 1

\* C18: no two connections have the same temporary path; a new temporary
\* file takes a name no file on disk has; the file of a /transcribe request
\* is on disk for as long as transcribe_audio runs on it; and a file leaves
\* the disk only in the finally step of the request that created it, after
\* its call of transcribe_audio.
C18_TempFilesPerRequest ==
  /\ [](\A r1, r2 \in Conns :
          (r1 # r2 /\ temp_path[r1] # NoPath) => temp_path[r1] # temp_path[r2])
  /\ [](\A r \in Conns :
          (IsTranscribe(req[r]) /\ pc[r] \in {"call", "lock", "generate"})
            => temp_path[r] \in files)
  /\ [][ /\ \A r \in Conns :
              (temp_path'[r] # temp_path[r] /\ temp_path'[r] # NoPath)
                => temp_path'[r] \notin files
         /\ \A f \in files \ files' :
              \E r \in Conns :
                /\ temp_path[r] = f
                /\ pc[r] = "finally" /\ pc'[r] # "finally"
                /\ audio_path[r] = f ]_vars

\* An inference runs on a request's temporary file while the file another
\* request left behind is on disk and another connection waits.
C18_Witness ==
  \E r1, r2 \in Conns :
    /\ r1 # r2
    /\ IsTranscribe(req[r1]) /\ pc[r1] = "generate"
    /\ temp_path[r1] \in files
    /\ pc[r2] = "queued"
    /\ \E f \in files \cap TmpNames : f # temp_path[r1]

\* A request with a method the handler class has no do_ method for.
OtherMethod(q) == q # NoReq /\ q.method \notin {"GET", "POST", "OPTIONS"}

\* C19 as claimed: a request with any other method sends 404
\* {"error": "Not found"}.
C19_OtherMethodIs404 ==
  \A r \in Conns :
    (OtherMethod(req[r]) /\ pc[r] \in {"respond", "returned", "fault"})
      => out[r] = Some(Response(404, ErrorBody("Not found")))

\* C19 as amended: a request with any other method, to any path, sends the
\* base handler's 501 error response, which is not the JSON 404, and never
\* reaches transcribe_audio or the model.
C19_OtherMethodIs501 ==
  \A r \in Conns :
    OtherMethod(req[r]) =>
      /\ pc[r] \in {"respond", "returned", "fault"}
      /\ out[r] # None
      /\ out[r][1].status = 501
      /\ out[r][1].body # ErrorBody("Not found")
      /\ calls[r] = 0 /\ result[r] = None
      /\ pc[r] = "returned" => resp[r] = out[r]
      /\ pc[r] = "fault" => exc[r] = Some("BrokenPipeError")

\* A PUT to a path GET knows was answered with the 501.
C19_Witness ==
  \E r \in Conns :
    /\ req[r].method = "PUT" /\ req[r].target = <<"/health">>
    /\ pc[r] = "returned"
    /\ resp[r] # None /\ resp[r][1].status = 501

\* C20: whenever model_loaded is true the model is set, and no step
\* changes the model once it is set.
C20_FlagsConsistent ==
  /\ [](model_loaded => model # None)
  /\ [][model # None => model' = model]_vars

\* The flags are both set while the server has handled a failing request.
C20_Witness ==
  /\ mainpc = "serve"
  /\ model = Some(ModelName) /\ model_loaded
  /\ \E r \in Conns : pc[r] = "fault" /\ exc[r] = Some("ValueError")

====
